---- MODULE Spec2Model ----
(***************************************************************************)
(* Model of src/routes/page.ts: the pageRoute handler, its call-budget     *)
(* guard limitedApiCall and the module-level counter apiCallCount.         *)
(*                                                                         *)
(* Block IDs are UUID strings in the program; they are written 1..NumIds   *)
(* here and are used as names only.  A JavaScript object with such keys    *)
(* iterates in insertion order, so a record map is a sequence of entries   *)
(* [key, value, collection] with pairwise different keys.                  *)
(*                                                                         *)
(* Strings that the program concatenates or searches (error messages) are  *)
(* sequences of text pieces: concatenation is \o and String.includes is a  *)
(* search for a contiguous run of pieces.                                  *)
(*                                                                         *)
(* JavaScript runs an invocation without interruption between two awaits:  *)
(* `running` names the invocation that is executing synchronous code, and  *)
(* another invocation can only move while it is 0.                         *)
(*                                                                         *)
(* Inputs: a block's value.id equals its key in the record map, and what a *)
(* collaborator throws is an Error object with a string message.           *)
(***************************************************************************)
EXTENDS Integers, Sequences, FiniteSets, TLC

\* ------------------------------------------------------------------ bounds
NumIds == 23           \* block IDs known upstream: 1..NumIds
MaxSmallCeiling == 3   \* ceilings 0..MaxSmallCeiling are tried besides 45

\* --------------------------------------------------------- program constants
MAX_API_CALLS == 45
MAX_ITERATIONS == 2
MAX_BLOCKS_PER_ITERATION == 20

BlockIds == 1..NumIds
Procs == {1, 2}        \* pageRoute invocations that may be in flight
Ceilings == (0..MaxSmallCeiling) \cup {MAX_API_CALLS}

VARIABLES
  apiCallCount,   \* the module-level counter (shared by all invocations)
  maxApiCalls,    \* the ceiling the counter is compared with
  upstream,       \* the remote workspace: block ID -> block value
  running,        \* the invocation executing synchronous code, or 0
  pc,             \* per invocation: position in pageRoute
  site,           \* per invocation: the guarded call being made / awaited
  pageId,         \* per invocation: parsePageId(req.params.pageId)
  page,           \* per invocation: recordMap of the root page fetch
  allBlocks,      \* per invocation: the block graph
  iteration,      \* per invocation: loop variable of the expansion loop
  pendingBlocks,  \* per invocation: IDs selected in the current round
  b,              \* per invocation: ID of the collection-view block chosen
  collPage,       \* per invocation: recordMap of the collection page fetch
  thrown,         \* per invocation: message of the error being handled
  response,       \* per invocation: what pageRoute returned
  hist            \* per invocation: observation log (not program state)

vars == << apiCallCount, maxApiCalls, upstream, running, pc, site, pageId,
           page, allBlocks, iteration, pendingBlocks, b, collPage, thrown,
           response, hist >>

\* ------------------------------------------------------------ small helpers
Min(x, y) == IF x <= y THEN x ELSE y

Range(s) == { s[i] : i \in 1..Len(s) }

\* Array.prototype.slice(0, n)
Slice(s, n) == SubSeq(s, 1, Min(Len(s), n))

\* the sequence lo, lo+1, ..., hi
Interval(lo, hi) == [ i \in 1..(IF hi >= lo THEN hi - lo + 1 ELSE 0) |-> lo + i - 1 ]

\* s without its elements equal to x
Without(s, x) == SelectSeq(s, LAMBDA y : y # x)

\* s with every later repetition of an element removed
RECURSIVE Dedup(_)
Dedup(s) ==
  IF s = << >> THEN << >>
  ELSE << Head(s) >> \o Dedup(Without(Tail(s), Head(s)))

\* String.prototype.includes on texts held as sequences of pieces
Includes(text, pat) ==
  \E i \in 0..(Len(text) - Len(pat)) :
     \A j \in 1..Len(pat) : text[i + j] = pat[j]

\* ------------------------------------------------------------- block values
\* A block value as Notion returns it.  present = FALSE is an entry without
\* a value (only a role); hasContent / hasViewIds = FALSE is an undefined
\* field.
BlockValue(id, type, hasContent, content, hasViewIds, viewIds, version) ==
  [ present |-> TRUE, id |-> id, type |-> type,
    hasContent |-> hasContent, content |-> content,
    hasViewIds |-> hasViewIds, view_ids |-> viewIds, version |-> version ]

NoValue(id) ==
  [ present |-> FALSE, id |-> id, type |-> "none",
    hasContent |-> FALSE, content |-> << >>,
    hasViewIds |-> FALSE, view_ids |-> << >>, version |-> 0 ]

\* the collection annotation of a graph entry (absent on fetched blocks)
NoCollection ==
  [ present |-> FALSE, title |-> "", schema |-> "", types |-> << >>, data |-> "" ]

Entry(key, value) == [ key |-> key, value |-> value, collection |-> NoCollection ]

\* --------------------------------------------------- record maps (objects)
Keys(g) == [ i \in 1..Len(g) |-> g[i].key ]            \* Object.keys(g)
KeySet(g) == { g[i].key : i \in 1..Len(g) }
Has(g, id) == id \in KeySet(g)                         \* !!g[id]
IndexOf(g, id) == CHOOSE i \in 1..Len(g) : g[i].key = id
Get(g, id) == g[IndexOf(g, id)]                        \* g[id]

\* g[e.key] = e : an existing key keeps its place, a new key goes last
Put(g, e) ==
  IF Has(g, e.key) THEN [ g EXCEPT ![IndexOf(g, e.key)] = e ]
  ELSE Append(g, e)

\* { ...g, ...new } : object spread, later properties win
RECURSIVE Spread(_, _)
Spread(g, new) ==
  IF new = << >> THEN g ELSE Spread(Put(g, Head(new)), Tail(new))

\* ------------------------------------------------- the call-budget guard
\* mutant of BudgetSpent: the test lets one call too many through
BudgetSpentOffByOne(count, ceiling) == count > ceiling

\* the test of limitedApiCall: no capacity left
BudgetSpent(count, ceiling) == count >= ceiling

\* the labels passed to limitedApiCall
Label(s, iter) ==
  CASE s = "page"     -> << "while fetching initial page" >>
    [] s = "blocks"   -> << "while fetching blocks batch ", ToString(iter + 1) >>
    [] s = "collPage" -> << "while fetching collection page" >>
    [] s = "table"    -> << "while fetching table data" >>

\* "Too many API calls: " + errorMessage
GuardMessage(label) == << "Too many API calls", ": " >> \o label

\* ------------------------------------------------------ block expansion
\* mutant of BlockCandidates: the content of other pages is expanded too
BlockCandidatesAllPages(g, e, root) ==
  IF ~e.value.present \/ ~e.value.hasContent
  THEN << >>
  ELSE SelectSeq(e.value.content, LAMBDA id : ~Has(g, id))

\* mutant of BlockCandidates: known IDs are not filtered out
BlockCandidatesUnfiltered(g, e, root) ==
  IF ~e.value.present \/ ~e.value.hasContent
     \/ (e.value.type = "page" /\ e.key # root)
  THEN << >>
  ELSE e.value.content

\* the callback of flatMap: the IDs one block contributes to a round
BlockCandidates(g, e, root) ==
  IF ~e.value.present \/ ~e.value.hasContent
     \/ (e.value.type = "page" /\ e.key # root)
  THEN << >>
  ELSE SelectSeq(e.value.content, LAMBDA id : ~Has(g, id))

\* allBlockKeys.flatMap(...) over the entries g[i..Len(g)]
RECURSIVE FlatCandidates(_, _, _)
FlatCandidates(g, i, root) ==
  IF i > Len(g) THEN << >>
  ELSE BlockCandidates(g, g[i], root) \o FlatCandidates(g, i + 1, root)

\* mutant of PendingBlocks: the cap keeps the last candidates, not the first
PendingBlocksLast(g, root) ==
  SubSeq(FlatCandidates(g, 1, root),
         Len(FlatCandidates(g, 1, root)) - Min(Len(FlatCandidates(g, 1, root)), MAX_BLOCKS_PER_ITERATION) + 1,
         Len(FlatCandidates(g, 1, root)))

\* pendingBlocks of one round
PendingBlocks(g, root) == Slice(FlatCandidates(g, 1, root), MAX_BLOCKS_PER_ITERATION)

\* mutant of MergeBlocks: the fetched blocks are not kept
MergeBlocksDropped(g, newBlocks) == g

\* allBlocks = { ...allBlocks, ...newBlocks }
MergeBlocks(g, newBlocks) == Spread(g, newBlocks)

\* -------------------------------------------------- collection resolution
\* first entry of a record map that may be undefined ("" stands for a falsy
\* result: undefined map or empty map)
Truthy(m) == m.defined /\ Len(m.keys) > 0

\* the flatMap of the collection-view scan, over the entries g[i..Len(g)]
RECURSIVE ViewBlocks(_, _)
ViewBlocks(g, i) ==
  IF i > Len(g) THEN << >>
  ELSE (IF g[i].value.present /\ g[i].value.type = "collection_view"
        THEN << g[i].value.id >> ELSE << >>) \o ViewBlocks(g, i + 1)

\* mutant of PendingCollections: the last collection view is taken
PendingCollectionsLast(g) ==
  IF ViewBlocks(g, 1) = << >> THEN << >>
  ELSE << ViewBlocks(g, 1)[Len(ViewBlocks(g, 1))] >>

\* pendingCollections
PendingCollections(g) == Slice(ViewBlocks(g, 1), 1)

\* limitedViewIds.map(id => col ? col.value : undefined)
ViewTypes(viewIds, cp) ==
  [ i \in 1..Len(viewIds) |->
      IF viewIds[i] \in Range(cp.collection_view.keys)
      THEN [ defined |-> TRUE, id |-> viewIds[i] ]
      ELSE [ defined |-> FALSE, id |-> "" ] ]

\* the annotation attached to the collection-view block
Annotation(e, cp, table) ==
  [ present |-> TRUE,
    title   |-> cp.collection.keys[1],
    schema  |-> table.schema,
    types   |-> ViewTypes(Slice(e.value.view_ids, 1), cp),
    data    |-> table.rows ]

\* allBlocks[b] = { ...allBlocks[b], collection: {...} }
Annotate(g, id, cp, table) ==
  Put(g, [ Get(g, id) EXCEPT !.collection = Annotation(Get(g, id), cp, table) ])

\* ------------------------------------------------------- error classifier
DefaultMessage == << "An error occurred processing the page" >>

\* error.message || "An error occurred processing the page"
ErrorMessage(msg) == IF msg = << >> THEN DefaultMessage ELSE msg

\* mutant of StatusCode: the upstream rate-limit signal is not recognised
StatusCodeGuardOnly(errorMessage) ==
  IF Includes(errorMessage, << "Too many API calls" >>) THEN 429 ELSE 500

StatusCode(errorMessage) ==
  IF Includes(errorMessage, << "Too many API calls" >>)
     \/ Includes(errorMessage, << "Too many subrequests" >>)
  THEN 429 ELSE 500

\* createResponse(allBlocks)
SuccessResponse(g) ==
  [ kind |-> "success", status |-> 0, body |-> g, error |-> << >> ]

\* createResponse({ error: errorMessage }, {}, statusCode)
ErrorResponse(msg) ==
  [ kind |-> "error", status |-> StatusCode(ErrorMessage(msg)),
    body |-> << >>, error |-> ErrorMessage(msg) ]

NoResponse == [ kind |-> "none", status |-> 0, body |-> << >>, error |-> << >> ]

\* ------------------------------------------------- the remote workspace
\* Link structures: block ID -> content list (has = FALSE: no content field)
Leaf == [ has |-> FALSE, ids |-> << >> ]
Children(ids) == [ has |-> TRUE, ids |-> ids ]

\* every block of 1..n lists every other block of 1..n
LinksMutual(n) ==
  [ i \in BlockIds |-> IF i <= n THEN Children(Without(Interval(1, n), i)) ELSE Leaf ]

\* five blocks under the root, one of which has two children of its own
LinksTree ==
  [ i \in BlockIds |->
      CASE i = 1 -> Children(<< 2, 3, 4, 5 >>)
        [] i = 3 -> Children(<< 6, 7 >>)
        [] OTHER -> Leaf ]

\* the root lists every other block (more than one round can take)
LinksLong ==
  [ i \in BlockIds |->
      CASE i = 1 -> Children(Interval(2, NumIds))
        [] i = 2 -> Children(<< NumIds, 3 >>)
        [] OTHER -> Leaf ]

\* repeated and shared children, a reference back to the root, an empty list
LinksShared ==
  [ i \in BlockIds |->
      CASE i = 1 -> Children(<< 2, 3, 3 >>)
        [] i = 2 -> Children(<< 3, 4 >>)
        [] i = 3 -> Children(<< 1, 4, 5 >>)
        [] i = 4 -> Children(<< >>)
        [] OTHER -> Leaf ]

LinkStructures ==
  { LinksMutual(3), LinksMutual(NumIds), LinksTree, LinksLong, LinksShared }

\* Type assignments: block ID -> type ("none": the entry has no value)
TypesPlain == [ i \in BlockIds |-> IF i = 1 THEN "page" ELSE "text" ]

TypesForeign ==
  [ i \in BlockIds |-> IF i \in {1, 3} THEN "page" ELSE "text" ]

TypesViews ==
  [ i \in BlockIds |->
      CASE i = 1 -> "page"
        [] i \in {2, 3, 4} -> "collection_view"
        [] OTHER -> "text" ]

TypesMixed ==
  [ i \in BlockIds |->
      CASE i = 1 -> "page"
        [] i = 2 -> "page"
        [] i = 3 -> "none"
        [] i \in {4, 5} -> "collection_view"
        [] OTHER -> "text" ]

TypeAssignments == { TypesPlain, TypesForeign, TypesViews, TypesMixed }

\* view_ids of a collection-view block (undefined on block 5)
ViewIdsOf(i) ==
  CASE i = 2 -> [ has |-> TRUE, ids |-> << "v1", "v2" >> ]
    [] i = 3 -> [ has |-> TRUE, ids |-> << "v3" >> ]
    [] i = 4 -> [ has |-> TRUE, ids |-> << "v2", "v1" >> ]
    [] OTHER -> [ has |-> FALSE, ids |-> << >> ]

\* the workspace with the given links and types, every block at version v
Workspace(links, types, v) ==
  [ i \in BlockIds |->
      IF types[i] = "none" THEN NoValue(i)
      ELSE BlockValue(i, types[i], links[i].has, links[i].ids,
                      types[i] = "collection_view" /\ ViewIdsOf(i).has,
                      IF types[i] = "collection_view" THEN ViewIdsOf(i).ids ELSE << >>,
                      v) ]

Workspaces == { Workspace(l, t, 1) : l \in LinkStructures, t \in TypeAssignments }

\* a later edit of a block: the same block at the next version
Edited(v) == [ v EXCEPT !.version = @ + 1 ]

\* ------------------------------------------------ collaborator responses
UndefinedMap == [ defined |-> FALSE, keys |-> << >> ]
MapOf(keys) == [ defined |-> TRUE, keys |-> keys ]

\* fetchPageById(pageId): the blocks of the page's chunk, in response order,
\* and the collection / collection_view maps of the record map
InitialChunks == { << 1 >>, << 1, 2, 3, 4, 5 >>, << 4, 3, 2, 1 >> }

PageCollections ==
  { [ collection |-> MapOf(<< "c1" >>), collection_view |-> MapOf(<< "v1" >>) ],
    [ collection |-> MapOf(<< "c1" >>), collection_view |-> UndefinedMap ],
    [ collection |-> UndefinedMap,      collection_view |-> UndefinedMap ] }

NoPage == [ collection |-> UndefinedMap, collection_view |-> UndefinedMap ]

BlocksOf(ws, ids) == [ i \in 1..Len(ids) |-> Entry(ids[i], ws[ids[i]]) ]

\* fetchBlocks(ids): the requested blocks without the first `omit` of them,
\* followed, when extra # 0, by block `extra` as edited since it was read
BatchResponse(ws, ids, omit, extra) ==
  BlocksOf(ws, SubSeq(Dedup(ids), omit + 1, Len(Dedup(ids))))
    \o (IF extra = 0 THEN << >> ELSE << Entry(extra, Edited(ws[extra])) >>)

Omissions == {0, 1}
Extras == {0, 1}

\* fetchPageById(b): the record map of the collection's own page
CollectionPages ==
  { [ collection |-> UndefinedMap,       collection_view |-> UndefinedMap ],
    [ collection |-> MapOf(<< >>),       collection_view |-> MapOf(<< >>) ],
    [ collection |-> MapOf(<< "Tasks" >>), collection_view |-> UndefinedMap ],
    [ collection |-> MapOf(<< "Tasks" >>), collection_view |-> MapOf(<< >>) ],
    [ collection |-> MapOf(<< "Tasks", "Notes" >>),
      collection_view |-> MapOf(<< "v1", "v2" >>) ] }

\* getTableData(coll, viewId, token, true)
TableData == [ rows |-> "rows", schema |-> "schema" ]

\* messages of the errors a collaborator may throw
UpstreamErrors ==
  { << "Too many subrequests", "." >>,
    << "Request failed", ": ", "Too many API calls" >>,
    << "Unauthorized" >>,
    << >> }

\* messages of the TypeErrors the handler's own code may raise
ViewMapError == << "Cannot convert undefined or null to object" >>
ViewValueError == << "Cannot read property 'value' of undefined" >>
ViewIdsError == << "Cannot read property 'slice' of undefined" >>

\* page IDs a request may name
RequestIds == {1, 2}

\* ------------------------------------------------------ observation log
NoExit == [ reached |-> FALSE, pending |-> << >>, count |-> 0,
            graph |-> << >>, calls |-> << >> ]

NoHistory ==
  [ initial   |-> << >>,   \* the graph as copied from the root page
    calls     |-> << >>,   \* sites whose operation the guard invoked
    requested |-> << >>,   \* the ID lists passed to fetchBlocks
    returned  |-> << >>,   \* the key sets of the fetchBlocks responses
    threw     |-> FALSE,   \* the catch clause was entered
    exit      |-> NoExit ] \* what held when the expansion loop was left

\* ---------------------------------------------------------------- Init
Init ==
  /\ apiCallCount = 0
  /\ maxApiCalls \in Ceilings
  /\ upstream \in Workspaces
  /\ running = 0
  /\ pc = [ p \in Procs |-> "idle" ]
  /\ site = [ p \in Procs |-> "page" ]
  /\ pageId = [ p \in Procs |-> 0 ]
  /\ page = [ p \in Procs |-> NoPage ]
  /\ allBlocks = [ p \in Procs |-> << >> ]
  /\ iteration = [ p \in Procs |-> 0 ]
  /\ pendingBlocks = [ p \in Procs |-> << >> ]
  /\ b = [ p \in Procs |-> 0 ]
  /\ collPage = [ p \in Procs |-> NoPage ]
  /\ thrown = [ p \in Procs |-> << >> ]
  /\ response = [ p \in Procs |-> NoResponse ]
  /\ hist = [ p \in Procs |-> NoHistory ]

\* ------------------------------------------------------------- actions
\* pageRoute is entered: the counter is reset and the first guarded call made
Enter(p) ==
  /\ running = 0
  /\ pc[p] = "idle"
  /\ \E id \in RequestIds : pageId' = [ pageId EXCEPT ![p] = id ]
  /\ apiCallCount' = 0
  /\ running' = p
  /\ pc' = [ pc EXCEPT ![p] = "guard" ]
  /\ site' = [ site EXCEPT ![p] = "page" ]
  /\ UNCHANGED << maxApiCalls, upstream, page, allBlocks, iteration,
                  pendingBlocks, b, collPage, thrown, response, hist >>

\* mutant of Counted: the call is not counted
CountedNot(count) == count

\* apiCallCount++
Counted(count) == count + 1

\* limitedApiCall: refuse when the budget is spent, else count and invoke
LimitedApiCall(p) ==
  /\ running = p
  /\ pc[p] = "guard"
  /\ IF BudgetSpent(apiCallCount, maxApiCalls)
     THEN /\ thrown' = [ thrown EXCEPT ![p] = GuardMessage(Label(site[p], iteration[p])) ]
          /\ pc' = [ pc EXCEPT ![p] = "catch" ]
          /\ UNCHANGED << apiCallCount, running, hist >>
     ELSE /\ apiCallCount' = Counted(apiCallCount)
          /\ pc' = [ pc EXCEPT ![p] = "await" ]
          /\ running' = 0
          /\ hist' = [ hist EXCEPT
                         ![p].calls = Append(@, site[p]),
                         ![p].requested =
                            IF site[p] = "blocks" THEN Append(@, pendingBlocks[p]) ELSE @ ]
          /\ UNCHANGED thrown
  /\ UNCHANGED << maxApiCalls, upstream, site, pageId, page, allBlocks,
                  iteration, pendingBlocks, b, collPage, response >>

\* the awaited operation rejects
OperationThrows(p) ==
  /\ running = 0
  /\ pc[p] = "await"
  /\ \E msg \in UpstreamErrors \cup { ViewValueError } :
       /\ (msg = ViewValueError) <=>
            (site[p] = "table" /\ collPage[p].collection_view.keys = << >>)
       /\ thrown' = [ thrown EXCEPT ![p] = msg ]
  /\ running' = p
  /\ pc' = [ pc EXCEPT ![p] = "catch" ]
  /\ UNCHANGED << apiCallCount, maxApiCalls, upstream, site, pageId, page,
                  allBlocks, iteration, pendingBlocks, b, collPage, response, hist >>

\* the root page arrives: the graph starts as a copy of its blocks
PageFetched(p) ==
  /\ running = 0
  /\ pc[p] = "await"
  /\ site[p] = "page"
  /\ \E chunk \in InitialChunks, maps \in PageCollections :
       /\ page' = [ page EXCEPT ![p] = maps ]
       /\ allBlocks' = [ allBlocks EXCEPT ![p] = BlocksOf(upstream, chunk) ]
  /\ iteration' = [ iteration EXCEPT ![p] = 0 ]
  /\ running' = p
  /\ pc' = [ pc EXCEPT ![p] = "loop" ]
  /\ hist' = [ hist EXCEPT ![p].initial = allBlocks'[p] ]
  /\ UNCHANGED << apiCallCount, maxApiCalls, upstream, site, pageId,
                  pendingBlocks, b, collPage, thrown, response >>

\* mutant of MoreRounds: a single round
MoreRoundsSingle(iter) == iter < 1

\* mutant of MoreRounds: one round too many
MoreRoundsOffByOne(iter) == iter <= MAX_ITERATIONS

\* the loop condition
MoreRounds(iter) == iter < MAX_ITERATIONS

\* mutant of ReachedLimit: the check before the batch fetch is missing
ReachedLimitUnchecked(count, ceiling) == FALSE

\* mutant of ReachedLimit: the check lets a batch through at the ceiling
ReachedLimitOffByOne(count, ceiling) == count > ceiling

\* the check before the batch fetch
ReachedLimit(count, ceiling) == count >= ceiling

\* mutant of NothingPending: an empty candidate list does not end the loop
NothingPendingUnchecked(pend) == FALSE

\* the test that ends the loop when no candidate is left
NothingPending(pend) == Len(pend) = 0

\* one pass through the head of the expansion loop, up to the batch fetch
ExpandRound(p) ==
  /\ running = p
  /\ pc[p] = "loop"
  /\ LET pend == PendingBlocks(allBlocks[p], pageId[p])
         leave(computed) ==
           /\ pc' = [ pc EXCEPT ![p] = "collection" ]
           /\ hist' = [ hist EXCEPT ![p].exit =
                          [ reached |-> TRUE,
                            pending |-> IF computed THEN pend ELSE << >>,
                            count   |-> apiCallCount,
                            graph   |-> allBlocks[p],
                            calls   |-> hist[p].calls ] ]
           /\ pendingBlocks' = [ pendingBlocks EXCEPT ![p] = IF computed THEN pend ELSE @ ]
           /\ UNCHANGED site
     IN  IF ~MoreRounds(iteration[p]) THEN leave(FALSE)
         ELSE IF NothingPending(pend) THEN leave(TRUE)
         ELSE IF ReachedLimit(apiCallCount, maxApiCalls) THEN leave(TRUE)
         ELSE /\ pendingBlocks' = [ pendingBlocks EXCEPT ![p] = pend ]
              /\ pc' = [ pc EXCEPT ![p] = "guard" ]
              /\ site' = [ site EXCEPT ![p] = "blocks" ]
              /\ UNCHANGED hist
  /\ UNCHANGED << apiCallCount, maxApiCalls, upstream, running, pageId, page,
                  allBlocks, iteration, b, collPage, thrown, response >>

\* the batch arrives and is merged; the next round starts
BlocksFetched(p) ==
  /\ running = 0
  /\ pc[p] = "await"
  /\ site[p] = "blocks"
  /\ \E omit \in Omissions, extra \in Extras :
       LET newBlocks == BatchResponse(upstream, pendingBlocks[p], omit, extra)
       IN  /\ allBlocks' = [ allBlocks EXCEPT ![p] = MergeBlocks(@, newBlocks) ]
           /\ hist' = [ hist EXCEPT ![p].returned = Append(@, KeySet(newBlocks)) ]
  /\ iteration' = [ iteration EXCEPT ![p] = @ + 1 ]
  /\ running' = p
  /\ pc' = [ pc EXCEPT ![p] = "loop" ]
  /\ UNCHANGED << apiCallCount, maxApiCalls, upstream, site, pageId, page,
                  pendingBlocks, b, collPage, thrown, response >>

\* mutant of HasCapacity: the capacity checks are missing
HasCapacityUnchecked(count, ceiling) == TRUE

\* mutant of HasCapacity: capacity is still seen at the ceiling
HasCapacityOffByOne(count, ceiling) == count <= ceiling

\* the checks that open collection resolution and before the table fetch
HasCapacity(count, ceiling) == count < ceiling

\* after the loop: decide whether a collection is resolved
ResolveCollection(p) ==
  /\ running = p
  /\ pc[p] = "collection"
  /\ IF /\ Truthy(page[p].collection)
        /\ Truthy(page[p].collection_view)
        /\ HasCapacity(apiCallCount, maxApiCalls)
        /\ Len(PendingCollections(allBlocks[p])) > 0
     THEN /\ b' = [ b EXCEPT ![p] = PendingCollections(allBlocks[p])[1] ]
          /\ pc' = [ pc EXCEPT ![p] = "guard" ]
          /\ site' = [ site EXCEPT ![p] = "collPage" ]
     ELSE /\ pc' = [ pc EXCEPT ![p] = "respond" ]
          /\ UNCHANGED << b, site >>
  /\ UNCHANGED << apiCallCount, maxApiCalls, upstream, running, pageId, page,
                  allBlocks, iteration, pendingBlocks, collPage, thrown,
                  response, hist >>

\* the collection's page arrives
CollPageFetched(p) ==
  /\ running = 0
  /\ pc[p] = "await"
  /\ site[p] = "collPage"
  /\ running' = p
  /\ \E cp \in CollectionPages :
       /\ collPage' = [ collPage EXCEPT ![p] = cp ]
       /\ IF Truthy(cp.collection)
          THEN IF ~cp.collection_view.defined
               THEN /\ thrown' = [ thrown EXCEPT ![p] = ViewMapError ]
                    /\ pc' = [ pc EXCEPT ![p] = "catch" ]
                    /\ UNCHANGED site
               ELSE IF HasCapacity(apiCallCount, maxApiCalls)
               THEN /\ pc' = [ pc EXCEPT ![p] = "guard" ]
                    /\ site' = [ site EXCEPT ![p] = "table" ]
                    /\ UNCHANGED thrown
               ELSE /\ pc' = [ pc EXCEPT ![p] = "respond" ]
                    /\ UNCHANGED << site, thrown >>
          ELSE /\ pc' = [ pc EXCEPT ![p] = "respond" ]
               /\ UNCHANGED << site, thrown >>
  /\ UNCHANGED << apiCallCount, maxApiCalls, upstream, pageId, page, allBlocks,
                  iteration, pendingBlocks, b, response, hist >>

\* the table data arrives and the collection-view block is annotated
TableFetched(p) ==
  /\ running = 0
  /\ pc[p] = "await"
  /\ site[p] = "table"
  /\ collPage[p].collection_view.keys # << >>
  /\ running' = p
  /\ IF ~Get(allBlocks[p], b[p]).value.hasViewIds
     THEN /\ thrown' = [ thrown EXCEPT ![p] = ViewIdsError ]
          /\ pc' = [ pc EXCEPT ![p] = "catch" ]
          /\ UNCHANGED allBlocks
     ELSE /\ allBlocks' = [ allBlocks EXCEPT ![p] = Annotate(@, b[p], collPage[p], TableData) ]
          /\ pc' = [ pc EXCEPT ![p] = "respond" ]
          /\ UNCHANGED thrown
  /\ UNCHANGED << apiCallCount, maxApiCalls, upstream, site, pageId, page,
                  iteration, pendingBlocks, b, collPage, response, hist >>

\* return createResponse(allBlocks)
Respond(p) ==
  /\ running = p
  /\ pc[p] = "respond"
  /\ response' = [ response EXCEPT ![p] = SuccessResponse(allBlocks[p]) ]
  /\ pc' = [ pc EXCEPT ![p] = "done" ]
  /\ running' = 0
  /\ UNCHANGED << apiCallCount, maxApiCalls, upstream, site, pageId, page,
                  allBlocks, iteration, pendingBlocks, b, collPage, thrown, hist >>

\* mutant of Catch: a failure inside collection resolution is recovered and
\* the graph expanded so far is returned
CatchRecovers(p) ==
  /\ running = p
  /\ pc[p] = "catch"
  /\ response' = [ response EXCEPT ![p] =
                     IF site[p] \in {"collPage", "table"}
                     THEN SuccessResponse(allBlocks[p])
                     ELSE ErrorResponse(thrown[p]) ]
  /\ hist' = [ hist EXCEPT ![p].threw = TRUE ]
  /\ pc' = [ pc EXCEPT ![p] = "done" ]
  /\ running' = 0
  /\ UNCHANGED << apiCallCount, maxApiCalls, upstream, site, pageId, page,
                  allBlocks, iteration, pendingBlocks, b, collPage, thrown >>

\* mutant of Catch: the error is thrown on to the caller, no response is made
CatchRethrows(p) ==
  /\ running = p
  /\ pc[p] = "catch"
  /\ pc' = [ pc EXCEPT ![p] = "rethrown" ]
  /\ running' = 0
  /\ UNCHANGED << apiCallCount, maxApiCalls, upstream, site, pageId, page,
                  allBlocks, iteration, pendingBlocks, b, collPage, thrown,
                  response, hist >>

\* the catch clause: classify the error and return the error response
Catch(p) ==
  /\ running = p
  /\ pc[p] = "catch"
  /\ response' = [ response EXCEPT ![p] = ErrorResponse(thrown[p]) ]
  /\ hist' = [ hist EXCEPT ![p].threw = TRUE ]
  /\ pc' = [ pc EXCEPT ![p] = "done" ]
  /\ running' = 0
  /\ UNCHANGED << apiCallCount, maxApiCalls, upstream, site, pageId, page,
                  allBlocks, iteration, pendingBlocks, b, collPage, thrown >>

Step(p) ==
  \/ Enter(p)
  \/ LimitedApiCall(p)
  \/ OperationThrows(p)
  \/ PageFetched(p)
  \/ ExpandRound(p)
  \/ BlocksFetched(p)
  \/ ResolveCollection(p)
  \/ CollPageFetched(p)
  \/ TableFetched(p)
  \/ Respond(p)
  \/ Catch(p)

\* one invocation running alone
Next == Step(1)

Spec == Init /\ [][Next]_vars

\* one invocation alone, every awaited collaborator call eventually settling
\* and the handler's own code running on
SpecLive == Spec /\ WF_vars(Next)

\* two invocations in flight, interleaving at their awaits; the inputs are
\* narrowed to one workspace and one ceiling
InitConc ==
  /\ Init
  /\ maxApiCalls = 2
  /\ upstream = Workspace(LinksShared, TypesViews, 1)

NextConc == \E p \in Procs : Step(p)

SpecConc == InitConc /\ [][NextConc]_vars

\* ================================================================ claims
Done(p) == pc[p] = "done"

\* the message tells that the budget is exhausted
BudgetSignal(msg) ==
  \/ Includes(msg, << "Too many API calls" >>)
  \/ Includes(msg, << "Too many subrequests" >>)

\* C1: the counter never exceeds the ceiling, and a guarded call attempted
\* when the counter equals the ceiling fails with the 'Too many API calls'
\* error, carrying its label, without invoking its operation or counting.
C1_CounterWithinCeiling ==
  /\ [](apiCallCount <= maxApiCalls)
  /\ [][ \A p \in Procs :
           (pc[p] = "guard" /\ pc'[p] # "guard" /\ apiCallCount = maxApiCalls)
             => /\ pc'[p] = "catch"
                /\ thrown'[p] = << "Too many API calls", ": " >> \o Label(site[p], iteration[p])
                /\ hist'[p].calls = hist[p].calls
                /\ apiCallCount' = apiCallCount ]_vars

\* C1 witness: the guard has just refused a call at the ceiling
C1_Witness ==
  \E p \in Procs :
    /\ pc[p] = "catch"
    /\ apiCallCount = maxApiCalls
    /\ Includes(thrown[p], << "Too many API calls" >>)
    /\ Includes(thrown[p], Label(site[p], iteration[p]))
    /\ site[p] \notin Range(hist[p].calls)

\* the case of C2: ceiling 2, both slots used by the root page fetch and one
\* batch fetch, the root page has a collection and a collection view, and the
\* graph holds a collection-view block
C2_Case(p) ==
  /\ Done(p)
  /\ maxApiCalls = 2
  /\ hist[p].exit.reached
  /\ hist[p].exit.calls = << "page", "blocks" >>
  /\ Truthy(page[p].collection)
  /\ Truthy(page[p].collection_view)
  /\ Len(PendingCollections(hist[p].exit.graph)) > 0

\* C2 as stated: in that case pageRoute returns a 429 error whose message
\* contains 'while fetching collection page'.
C2_Original ==
  \A p \in Procs :
    C2_Case(p) =>
      /\ response[p].kind = "error"
      /\ response[p].status = 429
      /\ Includes(response[p].error, << "while fetching collection page" >>)

\* C2 amended: in that case the capacity check skips collection resolution:
\* no third guarded call is attempted and pageRoute returns the expanded
\* graph, no block annotated, as a success response.
C2_ResolverSkipped ==
  \A p \in Procs :
    C2_Case(p) =>
      /\ response[p].kind = "success"
      /\ response[p].body = hist[p].exit.graph
      /\ hist[p].calls = << "page", "blocks" >>
      /\ ~hist[p].threw
      /\ \A i \in 1..Len(response[p].body) : ~response[p].body[i].collection.present

C2_Witness == \E p \in Procs : C2_Case(p)

\* C3: when a step of pageRoute throws, the response is an error payload with
\* a non-empty message, with status 429 exactly when the error's message
\* carries 'Too many API calls' or 'Too many subrequests', and 500 otherwise.
C3_ErrorClassification ==
  \A p \in Procs :
    (Done(p) /\ hist[p].threw) =>
      /\ response[p].kind = "error"
      /\ response[p].error # << >>
      /\ (BudgetSignal(thrown[p]) => response[p].status = 429)
      /\ (~BudgetSignal(thrown[p]) => response[p].status = 500)

\* C3 witness: an upstream 'Too many subrequests' error was answered
C3_Witness ==
  \E p \in Procs :
    /\ Done(p)
    /\ hist[p].threw
    /\ Includes(thrown[p], << "Too many subrequests" >>)
    /\ ~Includes(thrown[p], << "Too many API calls" >>)
    /\ response[p].status = 429

\* C4: expansion makes at most 2 rounds and issues at most 2 batch fetches,
\* each for at most 20 IDs.
C4_BoundedExpansion ==
  \A p \in Procs :
    /\ iteration[p] <= 2
    /\ Len(hist[p].requested) <= 2
    /\ \A k \in 1..Len(hist[p].requested) : Len(hist[p].requested[k]) <= 20

\* C4 witness: every block of the final graph lists every other block of it,
\* and both rounds were used, each cut down to 20 of more candidates
C4_Witness ==
  \E p \in Procs :
    /\ Done(p)
    /\ Len(hist[p].requested) = 2
    /\ \A k \in 1..2 : Len(hist[p].requested[k]) = 20
    /\ Len(allBlocks[p]) > 20
    /\ \A i, j \in 1..Len(allBlocks[p]) :
         i # j => allBlocks[p][j].key \in Range(allBlocks[p][i].value.content)

\* C5: an ID passed to fetchBlocks is not a key of the graph when the fetch
\* is issued.
C5_OnlyUnknownRequested ==
  \A p \in Procs :
    (pc[p] \in {"guard", "await"} /\ site[p] = "blocks") =>
      Range(pendingBlocks[p]) \cap KeySet(allBlocks[p]) = {}

\* C5 witness: a batch is in flight while some contributing block also lists
\* a block that is already in the graph
C5_Witness ==
  \E p \in Procs :
    /\ pc[p] = "await"
    /\ site[p] = "blocks"
    /\ \E i \in 1..Len(allBlocks[p]) :
         /\ BlockCandidates(allBlocks[p], allBlocks[p][i], pageId[p]) # << >>
         /\ Range(allBlocks[p][i].value.content) \cap KeySet(allBlocks[p]) # {}

\* all IDs an invocation has passed to fetchBlocks, in order
RECURSIVE Flatten(_)
Flatten(ss) == IF ss = << >> THEN << >> ELSE Head(ss) \o Flatten(Tail(ss))

\* C6 as stated: each block ID is requested at most once in an invocation,
\* within a batch and across batches.
C6_Original ==
  \A p \in Procs :
    LET all == Flatten(hist[p].requested)
    IN  \A i, j \in 1..Len(all) : i # j => all[i] # all[j]

\* C6 amended: an ID that a batch response returned is never requested by a
\* later batch of the invocation.  (An ID can occur more than once in one
\* batch, and an ID the response left out is requested again.)
C6_ReturnedNeverRequestedAgain ==
  \A p \in Procs :
    \A k \in 1..Len(hist[p].returned) :
      \A l \in (k + 1)..Len(hist[p].requested) :
        Range(hist[p].requested[l]) \cap hist[p].returned[k] = {}

\* C6 witness: the first response returned some of the requested blocks and
\* left one out, and the second batch asks for the one left out, twice
C6_Witness ==
  \E p \in Procs :
    /\ Len(hist[p].requested) = 2
    /\ hist[p].returned[1] \cap Range(hist[p].requested[1]) # {}
    /\ \E i, j \in 1..Len(hist[p].requested[2]) :
         /\ i # j
         /\ hist[p].requested[2][i] = hist[p].requested[2][j]
         /\ hist[p].requested[2][i] \in Range(hist[p].requested[1])

\* C7 as stated: the key set of the graph only grows, and the value of a key
\* of the graph is never replaced by the result of a batch fetch.
C7_Original ==
  [][ \A p \in Procs :
        \A i \in 1..Len(allBlocks[p]) :
          /\ Has(allBlocks'[p], allBlocks[p][i].key)
          /\ (pc[p] = "await" /\ site[p] = "blocks")
               => Get(allBlocks'[p], allBlocks[p][i].key).value = allBlocks[p][i].value ]_vars

\* a page block that is not the requested page
ForeignPage(e, root) == e.value.present /\ e.value.type = "page" /\ e.key # root

\* C8: a page block other than the requested page contributes no candidate,
\* and every ID in a batch is listed by a block of the graph that is not
\* such a page.
C8_ForeignPagesExcluded ==
  \A p \in Procs :
    (pc[p] \in {"guard", "await"} /\ site[p] = "blocks") =>
      /\ \A i \in 1..Len(allBlocks[p]) :
           ForeignPage(allBlocks[p][i], pageId[p])
             => BlockCandidates(allBlocks[p], allBlocks[p][i], pageId[p]) = << >>
      /\ \A id \in Range(pendingBlocks[p]) :
           \E i \in 1..Len(allBlocks[p]) :
             /\ allBlocks[p][i].value.present
             /\ id \in Range(allBlocks[p][i].value.content)
             /\ ~ForeignPage(allBlocks[p][i], pageId[p])

\* C8 witness: a batch is in flight, and a foreign page of the graph lists an
\* unknown block that the batch does not ask for
C8_Witness ==
  \E p \in Procs :
    /\ pc[p] = "await"
    /\ site[p] = "blocks"
    /\ \E i \in 1..Len(allBlocks[p]) :
         /\ ForeignPage(allBlocks[p][i], pageId[p])
         /\ \E id \in Range(allBlocks[p][i].value.content) :
              id \notin KeySet(allBlocks[p]) /\ id \notin Range(pendingBlocks[p])

IsView(e) == e.value.present /\ e.value.type = "collection_view"

\* positions of the collection-view blocks of a graph
ViewPositions(g) == { i \in 1..Len(g) : IsView(g[i]) }

\* collection resolution ran to its end
Resolved(p) ==
  /\ Done(p)
  /\ response[p].kind = "success"
  /\ "table" \in Range(hist[p].calls)

\* C9: when collection resolution succeeds, exactly one block carries the
\* annotation, namely the first collection-view block in key order; it keeps
\* its key and value, and every other block is as expansion left it.
C9_OneBlockAnnotated ==
  \A p \in Procs :
    Resolved(p) =>
      LET out == response[p].body
          was == hist[p].exit.graph
      IN  /\ Len(out) = Len(was)
          /\ \A i \in 1..Len(out) :
               /\ out[i].key = was[i].key
               /\ out[i].value = was[i].value
               /\ out[i].collection.present
                    <=> (i \in ViewPositions(was) /\ \A j \in ViewPositions(was) : i <= j)
               /\ ~out[i].collection.present => out[i] = was[i]
          /\ Cardinality({ i \in 1..Len(out) : out[i].collection.present }) = 1

\* C9 witness: resolution succeeded on a graph with three collection-view
\* blocks
C9_Witness ==
  \E p \in Procs :
    /\ Resolved(p)
    /\ Cardinality(ViewPositions(response[p].body)) = 3

\* C10: when a round has pending candidates and the counter has reached the
\* ceiling, the loop is left without a batch fetch and without an error, and
\* the graph as it then stands is returned as a success response.
C10_StopsAtLimit ==
  /\ [][ \A p \in Procs :
           ( /\ pc[p] = "loop" /\ pc'[p] # "loop"
             /\ iteration[p] < 2
             /\ Len(FlatCandidates(allBlocks[p], 1, pageId[p])) > 0
             /\ apiCallCount >= maxApiCalls )
           => /\ pc'[p] = "collection"
              /\ hist'[p].calls = hist[p].calls
              /\ allBlocks'[p] = allBlocks[p] ]_vars
  /\ [](\A p \in Procs :
          ( /\ Done(p)
            /\ hist[p].exit.reached
            /\ Len(hist[p].exit.pending) > 0
            /\ hist[p].exit.count >= maxApiCalls )
          => /\ response[p].kind = "success"
             /\ response[p].body = hist[p].exit.graph
             /\ hist[p].calls = hist[p].exit.calls
             /\ ~hist[p].threw)

\* C10 witness: the second round was cut short by the limit and the graph of
\* the first round was returned
C10_Witness ==
  \E p \in Procs :
    /\ Done(p)
    /\ hist[p].exit.calls = << "page", "blocks" >>
    /\ Len(hist[p].exit.pending) > 0
    /\ hist[p].exit.count >= maxApiCalls
    /\ response[p].kind = "success"
    /\ Len(response[p].body) > 1

\* an invocation that has entered pageRoute and not yet returned
InFlight(p) == pc[p] \notin {"idle", "done"}

\* C11 as stated: an invocation's budget is its own: the count its guarded
\* calls are checked against is the number of calls it has made itself,
\* whatever another invocation does in between.
C11_Original ==
  \A p \in Procs : InFlight(p) => apiCallCount = Len(hist[p].calls)

\* the blocks of graph g that list IDs unknown to g and are not foreign pages
Referencing(g, root) ==
  { i \in 1..Len(g) :
      /\ g[i].value.present
      /\ ~ForeignPage(g[i], root)
      /\ Range(g[i].value.content) \ KeySet(g) # {} }

\* the case of C12: the root page returned 5 blocks, exactly one of which
\* lists unknown children, two of them; the batch returned just these; the
\* graph then lists no unknown block; the root page has no collection; and
\* the ceiling leaves room for two calls
C12_Case(p) ==
  /\ Done(p)
  /\ maxApiCalls >= 2
  /\ Len(hist[p].initial) = 5
  /\ Cardinality(Referencing(hist[p].initial, pageId[p])) = 1
  /\ \A i \in Referencing(hist[p].initial, pageId[p]) :
       Cardinality(Range(hist[p].initial[i].value.content) \ KeySet(hist[p].initial)) = 2
  /\ Len(hist[p].returned) >= 1
  /\ \A i \in Referencing(hist[p].initial, pageId[p]) :
       hist[p].returned[1] = Range(hist[p].initial[i].value.content) \ KeySet(hist[p].initial)
  /\ Referencing(hist[p].exit.graph, pageId[p]) = {}
  /\ ~page[p].collection.defined

\* C12: a round that finds no pending candidate ends the expansion without a
\* batch fetch and without counting a call; in the case above the output
\* graph has 7 entries and exactly 2 guarded calls were made.
C12_FixedPoint ==
  /\ [][ \A p \in Procs :
           ( /\ pc[p] = "loop" /\ pc'[p] # "loop"
             /\ iteration[p] < 2
             /\ Referencing(allBlocks[p], pageId[p]) = {} )
           => /\ pc'[p] = "collection"
              /\ hist'[p].calls = hist[p].calls
              /\ apiCallCount' = apiCallCount ]_vars
  /\ [](\A p \in Procs :
          C12_Case(p)
          => /\ response[p].kind = "success"
             /\ Len(response[p].body) = 7
             /\ hist[p].calls = << "page", "blocks" >>
             /\ apiCallCount = 2)

C12_Witness == \E p \in Procs : C12_Case(p)

\* the requested IDs that the k-th batch response left out
Omitted(p, k) == Range(hist[p].requested[k]) \ hist[p].returned[k]

\* C13: a batch response that leaves out a requested ID raises no error and
\* the ID stays out of the graph; while a round remains (and the counter is
\* below the ceiling) the ID is requested again; an ID never returned is
\* absent from the successful result.
C13_OmittedChildRetried ==
  /\ [][ \A p \in Procs :
           ( /\ pc[p] = "await" /\ site[p] = "blocks"
             /\ Len(hist'[p].returned) = Len(hist[p].returned) + 1 )
           => /\ pc'[p] = "loop"
              /\ thrown'[p] = thrown[p]
              /\ \A id \in Omitted(p, Len(hist[p].requested))' :
                   ~Has(allBlocks'[p], id) ]_vars
  /\ [][ \A p \in Procs :
           ( /\ pc[p] = "loop" /\ pc'[p] # "loop"
             /\ iteration[p] < 2
             /\ apiCallCount < maxApiCalls
             /\ Len(hist[p].returned) >= 1
             /\ Omitted(p, Len(hist[p].returned)) # {} )
           => /\ pc'[p] = "guard"
              /\ site'[p] = "blocks"
              /\ Omitted(p, Len(hist[p].returned)) \subseteq Range(pendingBlocks'[p]) ]_vars
  /\ [](\A p \in Procs :
          (Done(p) /\ response[p].kind = "success")
          => \A k \in 1..Len(hist[p].returned) :
               \A id \in Omitted(p, k) :
                 (\A l \in 1..Len(hist[p].returned) : id \notin hist[p].returned[l])
                   => id \notin KeySet(response[p].body))

\* C13 witness: an ID was left out by both batch responses and the graph
\* without it was returned as a success
C13_Witness ==
  \E p \in Procs :
    /\ Done(p)
    /\ response[p].kind = "success"
    /\ Len(hist[p].returned) = 2
    /\ \E id \in Omitted(p, 1) \cap Omitted(p, 2) : id \notin KeySet(response[p].body)

\* C14: alone, from the reset at entry on, the counter never decreases and
\* equals the number of operations the guard has invoked: a guarded call
\* that invokes its operation adds exactly one, whether the operation then
\* returns or throws, and a refused call leaves the counter as it is.
C14_CounterCountsCalls ==
  /\ [](\A p \in Procs : pc[p] # "idle" => apiCallCount = Len(hist[p].calls))
  /\ [][ \A p \in Procs :
           /\ pc[p] # "idle" => apiCallCount' >= apiCallCount
           /\ (pc[p] = "guard" /\ pc'[p] = "await")
                => /\ apiCallCount' = apiCallCount + 1
                   /\ Len(hist'[p].calls) = Len(hist[p].calls) + 1
           /\ (pc[p] = "guard" /\ pc'[p] = "catch")
                => /\ apiCallCount' = apiCallCount
                   /\ hist'[p].calls = hist[p].calls
           /\ pc[p] = "await" => apiCallCount' = apiCallCount ]_vars

\* C14 witness: the third operation invoked has thrown and the counter is 3
C14_Witness ==
  \E p \in Procs :
    /\ pc[p] = "catch"
    /\ thrown[p] = << "Unauthorized" >>
    /\ Len(hist[p].calls) = 3
    /\ apiCallCount = 3

\* the places <<i, j>> of a graph where block i, not a foreign page, lists as
\* its j-th child an ID that is not a key of the graph
CandidatePlaces(g, root) ==
  UNION { { << i, j >> : j \in { k \in 1..Len(g[i].value.content) :
                                   g[i].value.content[k] \notin KeySet(g) } } :
          i \in { n \in 1..Len(g) : g[n].value.present /\ ~ForeignPage(g[n], root) } }

\* place r comes before place q: earlier block, or same block and earlier child
Before(r, q) == r[1] < q[1] \/ (r[1] = q[1] /\ r[2] < q[2])

Rank(places, q) == Cardinality({ r \in places : Before(r, q) }) + 1

\* C15: the IDs sent to fetchBlocks are the first 20 (or all, if fewer) of
\* the candidates taken block by block in key order and child by child in
\* content order, unknown IDs only: the k-th ID sent is the k-th candidate.
C15_PrefixOfCandidates ==
  \A p \in Procs :
    (pc[p] \in {"guard", "await"} /\ site[p] = "blocks") =>
      LET places == CandidatePlaces(allBlocks[p], pageId[p])
      IN  /\ Len(pendingBlocks[p]) = Min(Cardinality(places), 20)
          /\ \A q \in places :
               Rank(places, q) <= 20
                 => pendingBlocks[p][Rank(places, q)] = allBlocks[p][q[1]].value.content[q[2]]

\* C15 witness: more than 20 candidates, and the 20 sent come from several
\* blocks
C15_Witness ==
  \E p \in Procs :
    /\ pc[p] = "await"
    /\ site[p] = "blocks"
    /\ LET places == CandidatePlaces(allBlocks[p], pageId[p])
       IN  /\ Cardinality(places) > 20
           /\ \E q, r \in places :
                Rank(places, q) <= 20 /\ Rank(places, r) <= 20 /\ q[1] # r[1]

\* the success response holding the graph as the loop left it, no block
\* annotated
PlainSuccess(p) ==
  /\ response[p].kind = "success"
  /\ response[p].body = hist[p].exit.graph
  /\ ~hist[p].threw
  /\ \A i \in 1..Len(response[p].body) : ~response[p].body[i].collection.present

\* the condition of line 100 as it stood when the loop was left
C16_Opens(p) ==
  /\ Truthy(page[p].collection)
  /\ Truthy(page[p].collection_view)
  /\ hist[p].exit.count < maxApiCalls

\* the check of line 100 was evaluated and failed
C16_FirstFails(p) == Done(p) /\ hist[p].exit.reached /\ ~C16_Opens(p)

\* the check of line 135 was evaluated and failed: the collection page came
\* back with a collection and a collection_view map, and the counter was not
\* below the ceiling
C16_SecondFails(p) ==
  /\ Done(p)
  /\ hist[p].calls # << >>
  /\ hist[p].calls[Len(hist[p].calls)] = "collPage"
  /\ Truthy(collPage[p].collection)
  /\ collPage[p].collection_view.defined
  /\ ~(apiCallCount < maxApiCalls)

\* C16: alone, the collection page fetch is issued only when the root page
\* has a collection and a collection view and the counter is below the
\* ceiling, the table fetch only when the counter is below the ceiling after
\* the collection page fetch; when either check fails the response is the
\* graph as a success, no block annotated.
C16_ResolverGated ==
  \A p \in Procs :
    /\ (pc[p] \in {"guard", "await"} /\ site[p] = "collPage")
         => hist[p].exit.reached /\ C16_Opens(p)
    /\ (pc[p] = "guard" /\ site[p] \in {"collPage", "table"})
         => apiCallCount < maxApiCalls
    /\ "collPage" \in Range(hist[p].calls) => C16_Opens(p)
    /\ "table" \in Range(hist[p].calls) => "collPage" \in Range(hist[p].calls)
    /\ C16_FirstFails(p) => PlainSuccess(p)
    /\ C16_SecondFails(p) => PlainSuccess(p)

\* C16 witness: the collection page was fetched with the last slot and the
\* table fetch was skipped
C16_Witness ==
  \E p \in Procs : C16_SecondFails(p) /\ hist[p].exit.count < maxApiCalls

\* C17: when the collection page fetch or the table-data fetch throws, or
\* the code between them does, the response is an error payload (429 or
\* 500) with the error's message and no graph.
C17_ResolverFailurePropagates ==
  \A p \in Procs :
    (Done(p) /\ hist[p].threw /\ site[p] \in {"collPage", "table"}) =>
      /\ response[p].kind = "error"
      /\ response[p].body = << >>
      /\ response[p].status \in {429, 500}
      /\ response[p].error = ErrorMessage(thrown[p])

\* C17 witness: the table-data fetch threw after two batches were merged
C17_Witness ==
  \E p \in Procs :
    /\ Done(p)
    /\ hist[p].threw
    /\ site[p] = "table"
    /\ thrown[p] \in UpstreamErrors
    /\ Len(allBlocks[p]) > Len(hist[p].initial)

\* a response pageRoute may return
FinalResponse(p) ==
  \/ response[p] = SuccessResponse(allBlocks[p])
  \/ /\ response[p].kind = "error"
     /\ response[p].status \in {429, 500}
     /\ response[p].error # << >>

\* C18: if every collaborator call settles, an invocation that has started
\* comes to its end; it ends with a success payload holding the graph or an
\* error payload with status 429 or 500, there is no response before the
\* end, and the response does not change afterwards.
C18_EndsWithOneResponse ==
  /\ (\E p \in Procs : InFlight(p)) ~> (\A p \in Procs : ~InFlight(p))
  /\ [](\A p \in Procs : IF Done(p) THEN FinalResponse(p)
                                    ELSE response[p] = NoResponse)
  /\ [][ \A p \in Procs : Done(p) => (Done(p)' /\ response'[p] = response[p]) ]_vars

\* C18 witness: an invocation ended with an error after its second batch
C18_Witness ==
  \E p \in Procs :
    /\ Done(p)
    /\ response[p].kind = "error"
    /\ hist[p].calls = << "page", "blocks", "blocks" >>

\* the error held is the guard's own
GuardRaised(p) ==
  /\ Len(thrown[p]) >= 2
  /\ SubSeq(thrown[p], 1, 2) = GuardMessage(<< >>)

\* C19: alone with a ceiling of at least 1, every guarded call is reached
\* with the counter below the ceiling, so the guard's error is never raised;
\* a loop left because the budget is spent ends in the success response
\* with the graph so far, and a 429 comes from a collaborator's error only.
C19_GuardNeverRaises ==
  maxApiCalls >= 1 =>
    \A p \in Procs :
      /\ pc[p] = "guard" => apiCallCount < maxApiCalls
      /\ ~GuardRaised(p)
      /\ (Done(p) /\ response[p].status = 429) => thrown[p] \in UpstreamErrors
      /\ (Done(p) /\ hist[p].exit.reached /\ hist[p].exit.pending # << >>
            /\ hist[p].exit.count >= maxApiCalls)
           => /\ response[p].kind = "success"
              /\ response[p].body = hist[p].exit.graph

\* C19 witness: with a ceiling of 1 the root page used the only slot,
\* children were left unfetched and the answer is a success
C19_Witness ==
  \E p \in Procs :
    /\ Done(p)
    /\ maxApiCalls = 1
    /\ apiCallCount = 1
    /\ hist[p].exit.pending # << >>
    /\ response[p].kind = "success"

\* how many of the calls went to one site
CallsTo(calls, s) == Cardinality({ i \in 1..Len(calls) : calls[i] = s })

\* C20: alone, at most 5 guarded calls are made: at most one page fetch, two
\* block batches, one collection page fetch and one table fetch; with the
\* ceiling of 45 the counter stays below the ceiling.
C20_AtMostFiveCalls ==
  \A p \in Procs :
    /\ Len(hist[p].calls) <= 5
    /\ CallsTo(hist[p].calls, "page") <= 1
    /\ CallsTo(hist[p].calls, "blocks") <= 2
    /\ CallsTo(hist[p].calls, "collPage") <= 1
    /\ CallsTo(hist[p].calls, "table") <= 1
    /\ apiCallCount <= 5
    /\ maxApiCalls = MAX_API_CALLS => apiCallCount < maxApiCalls

\* C20 witness: all five calls were made under the ceiling of 45
C20_Witness ==
  \E p \in Procs :
    /\ Done(p)
    /\ maxApiCalls = MAX_API_CALLS
    /\ hist[p].calls = << "page", "blocks", "blocks", "collPage", "table" >>
    /\ apiCallCount = 5

====
